---- MODULE Spec2Model ----
(***************************************************************************)
(* A model of khoj's Notion ingester, src/khoj/processor/notion/           *)
(* notion_to_jsonl.py: NotionToJsonl.process and what it calls.            *)
(*                                                                         *)
(* Text is a sequence of one-character strings, so that concatenation,     *)
(* prefixes and emptiness are those of Python's str.  Type tags (block     *)
(* types, run types, the "object" of a search record) are plain strings,   *)
(* and the tag "None" stands for a missing "type" key.                     *)
(***************************************************************************)
EXTENDS Integers, Sequences, FiniteSets, TLC

\* ------------------------------------------------------------- bounds

\* The size of the workspace: the most records (pages and databases) the search
\* lists plus top-level blocks its pages hold, all together.
MaxSize == 4

\* ------------------------------------------------- NotionToJsonl.__init__

unsupported_block_types ==
    {"bookmark", "divider", "child_database", "template", "callout", "unsupported"}

display_block_block_types ==
    {"paragraph", "heading_1", "heading_2", "heading_3", "bulleted_list_item",
     "numbered_list_item", "to_do", "toggle", "child_page", "bookmark", "divider"}

\* The list literal of process_page's heading test.
heading_block_types == {"heading_1", "heading_2", "heading_3"}

\* A missing "type" key: dict.get returns None, which is in none of the lists.
NoType == "None"

\* ------------------------------------------------------------ text runs

\* process_text(text, block_type): block_type is NoType when the caller
\* passes none (the parameter's default).
process_text(text, block_type) ==
    IF text.type \in unsupported_block_types
    THEN <<>>
    ELSE IF text.href # <<>>
    THEN <<"<", "a", " ", "h", "r", "e", "f", "=", "'">> \o text.href
             \o <<"'", ">">> \o text.plain_text \o <<"<", "/", "a", ">">>
    ELSE IF text.type \in display_block_block_types
              \/ block_type \in display_block_block_types
    THEN <<"\n">> \o text.plain_text \o <<"\n">>
    ELSE text.plain_text

\* process_heading(heading) == f"\n<b>{heading}</b>\n"
process_heading(heading) ==
    <<"\n", "<", "b", ">">> \o heading \o <<"<", "/", "b", ">", "\n">>

\* for text in rich_text: raw_content += self.process_text(text, block_type)
RECURSIVE process_runs(_, _, _)
process_runs(rich_text, raw_content, block_type) ==
    IF rich_text = <<>>
    THEN raw_content
    ELSE process_runs(Tail(rich_text),
                      raw_content \o process_text(Head(rich_text), block_type),
                      block_type)


\* ------------------------------------------------------ nested children

\* process_nested_children(children, raw_content, block_type).  children is
\* what get_block_children returned: [ok, results], ok = FALSE when the call
\* raised (the exception leaves process_nested_children and its callers).
\* The result is [ok, raw]: the text returned, or ok = FALSE for the exception.
\* A child's has_children is the key of its type payload (child_data), which
\* is "absent", "true" or "false"; child.children is what get_block_children
\* answers for the child's id.
RECURSIVE process_nested_children(_, _, _)
RECURSIVE nested_loop(_, _, _)
nested_loop(results, raw_content, block_type) ==
    IF results = <<>>
    THEN [ok |-> TRUE, raw |-> raw_content]
    ELSE LET child == Head(results) IN
         IF child.type = NoType
         THEN nested_loop(Tail(results), raw_content, block_type)
         ELSE LET raw2 == IF child.rich_text # <<>>
                          THEN process_runs(child.rich_text, raw_content, block_type)
                          ELSE raw_content
              IN  IF child.has_children # "false"
                  THEN process_nested_children(child.children, raw2, block_type)
                  ELSE nested_loop(Tail(results), raw2, block_type)

process_nested_children(children, raw_content, block_type) ==
    IF ~children.ok
    THEN [ok |-> FALSE, raw |-> <<>>]
    ELSE nested_loop(children.results, raw_content, block_type)

\* ------------------------------------------------ one block of process_page

Entry(raw_content, title, url) ==
    [compiled |-> raw_content, raw |-> raw_content, heading |-> title, file |-> url]

\* if block_type is None: continue;  if rich_text is None or empty: continue
BlockIsSkipped(block) ==
    \/ block.type = NoType
    \/ ~block.has_rich_text
    \/ Len(block.rich_text) = 0

\* The heading branch of the loop body: the new curr_heading.
NextHeading(block, curr_heading) ==
    IF block.type \in heading_block_types
    THEN block.rich_text[1].plain_text
    ELSE curr_heading

\* raw_content after the heading test and the loop over the block's runs
\* (process_text is called here without a block_type).
BlockText(block, curr_heading) ==
    LET start == IF block.type \in heading_block_types THEN <<>>
                 ELSE IF curr_heading # <<>> THEN process_heading(curr_heading)
                 ELSE <<>>
    IN  process_runs(block.rich_text, start, NoType)

\* if block.get("has_children", True): raw_content += "\n"; raw_content =
\* self.process_nested_children(self.get_block_children(block["id"]), ...)
BlockRaw(block, curr_heading) ==
    LET text == BlockText(block, curr_heading) IN
    IF block.has_children # "false"
    THEN process_nested_children(block.children, text \o <<"\n">>, block.type)
    ELSE [ok |-> TRUE, raw |-> text]

\* if raw_content != "": current_entries.append(Entry(...))
BlockEntries(raw_content, title, url) ==
    IF raw_content # <<>> THEN <<Entry(raw_content, title, url)>> ELSE <<>>

\* ------------------------------------------------------- reconciliation

\* list(enumerate(current_entries))
Enumerate(current_entries) ==
    [i \in 1..Len(current_entries) |-> [id |-> i - 1, entry |-> current_entries[i]]]

SeqMax(ids) ==
    IF ids = {} THEN -1 ELSE CHOOSE m \in ids : \A n \in ids : n <= m

\* The previous entries a current entry matches: those with its compiled text.
Matches(e, previous) ==
    {j \in 1..Len(previous) : previous[j].entry.compiled = e.compiled}

\* The ways to keep one previous entry per compiled text (the content key maps
\* to one previous id).
Matchings(previous) ==
    {m \in SUBSET (1..Len(previous)) :
        \A j \in 1..Len(previous) :
            Cardinality({k \in m : previous[k].entry.compiled
                                      = previous[j].entry.compiled}) = 1}

\* mark_entries_for_update with the match lost: every entry is taken for new.
mark_entries_for_update_AllNew(current, previous, matching) ==
    LET top == SeqMax({previous[j].id : j \in 1..Len(previous)})
    IN  [i \in 1..Len(current) |-> [id |-> top + i, entry |-> current[i]]]

\* TextToJsonl.mark_entries_for_update(current, previous, key="compiled"),
\* by its contract: an entry whose compiled text a previous entry has keeps
\* that entry's id, any other gets a fresh id above every previous and every
\* assigned one, and the output is in the order of current.  matching is one
\* of Matchings(previous).
mark_entries_for_update(current, previous, matching) ==
    LET top == SeqMax({previous[j].id : j \in 1..Len(previous)})
        IsNew(i) == Matches(current[i], previous) = {}
        NewBefore(i) == Cardinality({k \in 1..(i - 1) : IsNew(k)})
    IN  [i \in 1..Len(current) |->
            [id |-> IF IsNew(i)
                    THEN top + 1 + NewBefore(i)
                    ELSE previous[CHOOSE j \in matching :
                                      j \in Matches(current[i], previous)].id,
             entry |-> current[i]]]

\* update_entries_with_ids(current_entries, previous_entries): previous_entries
\* is [given, entries], given = FALSE for None.
update_entries_with_ids(current_entries, previous_entries, matching) ==
    IF ~previous_entries.given \/ previous_entries.entries = <<>>
    THEN Enumerate(current_entries)
    ELSE mark_entries_for_update(current_entries, previous_entries.entries, matching)


\* ------------------------------------------------------------ the world

\* What the Notion API may answer.  Text runs, blocks and child blocks are
\* drawn from these sets; a page's blocks are a sequence over WorldBlocks.
Run(type, plain_text, href) ==
    [type |-> type, plain_text |-> plain_text, href |-> href]

TextRun(plain_text) == Run("text", plain_text, <<>>)

NoChildren == [ok |-> TRUE, results |-> <<>>]

\* get_block_children raised.
FetchRaises == [ok |-> FALSE, results |-> <<>>]

Block(type, has_rich_text, rich_text, has_children, children) ==
    [type |-> type, has_rich_text |-> has_rich_text, rich_text |-> rich_text,
     has_children |-> has_children, children |-> children]

\* A child block without children of its own; has_children is the key of its
\* type payload ("absent" in what the API sends).
Leaf(plain_text, has_children) ==
    [type |-> "paragraph", rich_text |-> <<TextRun(plain_text)>>,
     has_children |-> has_children, children |-> NoChildren]

ChildBatches ==
    {[ok |-> TRUE, results |-> <<Leaf(<<"c">>, hc), Leaf(<<"d">>, hc)>>] :
        hc \in {"absent", "false"}}

SkippedBlocks ==
    {Block(NoType, FALSE, <<>>, "false", NoChildren),
     Block("paragraph", TRUE, <<>>, "false", NoChildren),
     Block("heading_1", FALSE, <<>>, "false", NoChildren)}

TextBlocks ==
    {Block(t, TRUE, <<TextRun(pl)>>, "false", NoChildren) :
        t \in {"paragraph", "heading_1", "callout"}, pl \in {<<"a">>, <<"b">>}}
    \cup {Block(t, TRUE, <<TextRun(<<>>)>>, "false", NoChildren) :
            t \in {"paragraph", "heading_1"}}

ParentBlocks ==
    {Block("paragraph", TRUE, <<TextRun(<<"a">>)>>, "true", ch) :
        ch \in ChildBatches \cup {FetchRaises}}
    \cup {Block("paragraph", TRUE, <<TextRun(<<"a">>)>>, "absent", NoChildren)}

WorldBlocks == SkippedBlocks \cup TextBlocks \cup ParentBlocks

\* The sequences over S of length at most n.
RECURSIVE SeqsUpTo(_, _)
SeqsUpTo(S, n) ==
    IF n = 0 THEN {<<>>}
    ELSE LET shorter == SeqsUpTo(S, n - 1)
         IN  shorter \cup {Append(q, e) : q \in {r \in shorter : Len(r) = n - 1}, e \in S}

\* What get_page and get_page_children answer for one page: malformed when
\* the page record lacks "properties" or its title.
UnknownPage == [known |-> FALSE, malformed |-> FALSE, content |-> <<>>]

PageAnswers(budget) ==
    {[known |-> TRUE, malformed |-> TRUE, content |-> <<>>]}
    \cup {[known |-> TRUE, malformed |-> FALSE, content |-> c] :
            c \in SeqsUpTo(WorldBlocks, budget)}

\* What one search request answers: first is the id of its first record.  The
\* cursor is the API's: has_more says that records follow, so the response
\* after one with has_more lists at least one record, and only the response of
\* an empty workspace lists none.
SearchAnswers(first, budget) ==
    {a \in [results : {[i \in 1..Len(objs) |-> [object |-> objs[i], id |-> first + i - 1]] :
                          objs \in SeqsUpTo({"page", "database"}, budget)},
            has_more : BOOLEAN] :
        /\ a.has_more => Len(a.results) < budget
        /\ a.results = <<>> => first = 1 /\ ~a.has_more}

title == <<"T">>

\* ------------------------------------------------------------- the state

VARIABLES
    run,               \* "first" or "second": which call of process this is
    pc,                \* "search", "iterate", "blocks", "done", "raised"
    previous_entries,  \* process's argument: [given, entries]
    search_world,      \* the search responses the workspace has answered
    page_world,        \* per record id, what the page fetches answered
    fetched,           \* per run, the ids of the pages whose fetch succeeded
    responses,         \* how many responses this run has collected
    pos,               \* <<response, record>>: the record the loops are at
    block_idx,         \* process_page's position in content["results"]
    curr_heading,      \* process_page's curr_heading
    page_entries,      \* process_page's current_entries
    current_entries,   \* process's current_entries
    entries_with_ids,  \* what process returned
    call               \* one call of process_text: its site, arguments, result

vars == <<call, run, pc, previous_entries, search_world, page_world, fetched, responses,
          pos, block_idx, curr_heading, page_entries, current_entries,
          entries_with_ids>>

Records(world) ==
    LET RECURSIVE cat(_)
        cat(i) == IF i > Len(world) THEN <<>> ELSE world[i].results \o cat(i + 1)
    IN  cat(1)

\* The top-level blocks the pages fetched so far hold.
BlocksUsed ==
    LET RECURSIVE sum(_)
        sum(i) == IF i > MaxSize THEN 0 ELSE Len(page_world[i].content) + sum(i + 1)
    IN  sum(1)

\* The first record at or after <<r, i>> among the first n responses, or
\* <<n + 1, 1>> when the loops are over.
RECURSIVE Settle(_, _, _, _)
Settle(world, n, r, i) ==
    IF r > n THEN <<n + 1, 1>>
    ELSE IF i <= Len(world[r].results) THEN <<r, i>>
    ELSE Settle(world, n, r + 1, 1)

AtRecord == pc = "iterate" /\ pos[1] <= responses
Record == search_world[pos[1]].results[pos[2]]
Advance == Settle(search_world, responses, pos[1], pos[2] + 1)
Content == page_world[Record.id].content

NoCall == [site |-> "none", text |-> TextRun(<<>>), block_type |-> NoType,
           done |-> FALSE, out |-> <<>>]

Init ==
    /\ run = "first"
    /\ pc = "search"
    /\ previous_entries \in {[given |-> FALSE, entries |-> <<>>],
                             [given |-> TRUE, entries |-> <<>>]}
    /\ search_world = <<>>
    /\ page_world = [i \in 1..MaxSize |-> UnknownPage]
    /\ fetched = [r \in {"first", "second"} |-> {}]
    /\ responses = 0
    /\ pos = <<1, 1>>
    /\ block_idx = 1
    /\ curr_heading = <<>>
    /\ page_entries = <<>>
    /\ current_entries = <<>>
    /\ entries_with_ids = <<>>
    /\ call = NoCall

\* ----------------------------------------------------------------- process

\* One round of the while loop: post the search, append the response, and
\* leave the loop when has_more is False.
Search ==
    /\ pc = "search"
    /\ \E answer \in IF responses < Len(search_world)
                     THEN {search_world[responses + 1]}
                     ELSE SearchAnswers(Len(Records(search_world)) + 1,
                                        MaxSize - Len(Records(search_world))) :
          /\ search_world' = IF responses < Len(search_world) THEN search_world
                             ELSE Append(search_world, answer)
          /\ responses' = responses + 1
          /\ IF answer.has_more
             THEN pc' = "search" /\ pos' = pos
             ELSE pc' = "iterate" /\ pos' = Settle(search_world', responses', 1, 1)
    /\ UNCHANGED <<call, run, previous_entries, page_world, fetched, block_idx,
                   curr_heading, page_entries, current_entries, entries_with_ids>>

\* if p_or_d["object"] == "database": continue
SkipDatabase ==
    /\ AtRecord
    /\ Record.object = "database"
    /\ pos' = Advance
    /\ UNCHANGED <<call, run, pc, previous_entries, search_world, page_world, fetched,
                   responses, block_idx, curr_heading, page_entries,
                   current_entries, entries_with_ids>>

\* get_page_content without its try: the exception of the fetch leaves process.
GetPageContentRaises_Fatal ==
    /\ AtRecord
    /\ Record.object = "page"
    /\ pc' = "raised"
    /\ UNCHANGED <<call, run, previous_entries, search_world, page_world, fetched,
                   responses, pos, block_idx, curr_heading, page_entries,
                   current_entries, entries_with_ids>>

\* get_page or get_page_children raises: get_page_content returns (None, None),
\* process_page returns [] and process extends current_entries by it.
GetPageContentRaises ==
    /\ AtRecord
    /\ Record.object = "page"
    /\ current_entries' = current_entries \o <<>>
    /\ pos' = Advance
    /\ UNCHANGED <<call, run, pc, previous_entries, search_world, page_world, fetched,
                   responses, block_idx, curr_heading, page_entries, entries_with_ids>>

\* What the two fetches answer for the page at hand: what they answered
\* before, or any answer the first time.
Answers ==
    IF page_world[Record.id].known
    THEN {page_world[Record.id]}
    ELSE PageAnswers(MaxSize - Len(Records(search_world)) - BlocksUsed)

\* page["properties"] (or the title below it) is missing: the KeyError is
\* raised outside the try and leaves process_page and process.
GetPageContentMalformed ==
    /\ AtRecord
    /\ Record.object = "page"
    /\ \E answer \in Answers :
          /\ answer.malformed
          /\ page_world' = [page_world EXCEPT ![Record.id] = answer]
    /\ pc' = "raised"
    /\ UNCHANGED <<call, run, previous_entries, search_world, fetched, responses, pos,
                   block_idx, curr_heading, page_entries, current_entries,
                   entries_with_ids>>

\* process_page with curr_heading kept from the page before.
GetPageContent_KeepsHeading ==
    /\ AtRecord
    /\ Record.object = "page"
    /\ \E answer \in Answers :
          /\ ~answer.malformed
          /\ page_world' = [page_world EXCEPT ![Record.id] = answer]
    /\ fetched' = [fetched EXCEPT ![run] = @ \cup {Record.id}]
    /\ pc' = "blocks"
    /\ block_idx' = 1
    /\ page_entries' = <<>>
    /\ UNCHANGED <<call, run, previous_entries, search_world, responses, pos,
                   curr_heading, current_entries, entries_with_ids>>

\* get_page_content returns (title, content): process_page starts its loop.
GetPageContent ==
    /\ AtRecord
    /\ Record.object = "page"
    /\ \E answer \in Answers :
          /\ ~answer.malformed
          /\ page_world' = [page_world EXCEPT ![Record.id] = answer]
    /\ fetched' = [fetched EXCEPT ![run] = @ \cup {Record.id}]
    /\ pc' = "blocks"
    /\ block_idx' = 1
    /\ curr_heading' = <<>>
    /\ page_entries' = <<>>
    /\ UNCHANGED <<call, run, previous_entries, search_world, responses, pos,
                   current_entries, entries_with_ids>>

AtBlock == pc = "blocks" /\ block_idx <= Len(Content)

\* The loop body forgetting the heading at a block without text.
SkipBlock_ResetsHeading ==
    /\ AtBlock
    /\ BlockIsSkipped(Content[block_idx])
    /\ block_idx' = block_idx + 1
    /\ curr_heading' = <<>>
    /\ UNCHANGED <<call, run, pc, previous_entries, search_world, page_world, fetched,
                   responses, pos, page_entries, current_entries, entries_with_ids>>

\* The two "continue"s of the loop body.
SkipBlock ==
    /\ AtBlock
    /\ BlockIsSkipped(Content[block_idx])
    /\ block_idx' = block_idx + 1
    /\ UNCHANGED <<call, run, pc, previous_entries, search_world, page_world, fetched,
                   responses, pos, curr_heading, page_entries, current_entries,
                   entries_with_ids>>

\* The rest of the loop body for a block with text.
ProcessBlock ==
    /\ AtBlock
    /\ ~BlockIsSkipped(Content[block_idx])
    /\ LET block == Content[block_idx]
           heading == NextHeading(block, curr_heading)
           got == BlockRaw(block, heading)
       IN  /\ got.ok
           /\ curr_heading' = heading
           /\ page_entries' = page_entries \o BlockEntries(got.raw, title, Record.id)
    /\ block_idx' = block_idx + 1
    /\ UNCHANGED <<call, run, pc, previous_entries, search_world, page_world, fetched,
                   responses, pos, current_entries, entries_with_ids>>

\* get_block_children raises below process_page: nothing catches it.
ProcessBlockRaises ==
    /\ AtBlock
    /\ ~BlockIsSkipped(Content[block_idx])
    /\ ~BlockRaw(Content[block_idx], NextHeading(Content[block_idx], curr_heading)).ok
    /\ pc' = "raised"
    /\ UNCHANGED <<call, run, previous_entries, search_world, page_world, fetched,
                   responses, pos, block_idx, curr_heading, page_entries,
                   current_entries, entries_with_ids>>

\* process putting a page's entries before those it has.
ReturnPage_Prepends ==
    /\ pc = "blocks"
    /\ block_idx > Len(Content)
    /\ current_entries' = page_entries \o current_entries
    /\ pc' = "iterate"
    /\ pos' = Advance
    /\ UNCHANGED <<call, run, previous_entries, search_world, page_world, fetched,
                   responses, block_idx, curr_heading, page_entries, entries_with_ids>>

\* return current_entries, and process's current_entries.extend(page_entries)
ReturnPage ==
    /\ pc = "blocks"
    /\ block_idx > Len(Content)
    /\ current_entries' = current_entries \o page_entries
    /\ pc' = "iterate"
    /\ pos' = Advance
    /\ UNCHANGED <<call, run, previous_entries, search_world, page_world, fetched,
                   responses, block_idx, curr_heading, page_entries, entries_with_ids>>

\* return self.update_entries_with_ids(current_entries, previous_entries)
UpdateEntriesWithIds ==
    /\ pc = "iterate"
    /\ pos[1] > responses
    /\ \E matching \in Matchings(previous_entries.entries) :
          entries_with_ids' =
              update_entries_with_ids(current_entries, previous_entries, matching)
    /\ pc' = "done"
    /\ UNCHANGED <<call, run, previous_entries, search_world, page_world, fetched,
                   responses, pos, block_idx, curr_heading, page_entries,
                   current_entries>>

\* The next run: process is called again, with what it returned.
NextRun ==
    /\ pc = "done"
    /\ run = "first"
    /\ run' = "second"
    /\ previous_entries' = [given |-> TRUE, entries |-> entries_with_ids]
    /\ pc' = "search"
    /\ responses' = 0
    /\ pos' = <<1, 1>>
    /\ block_idx' = 1
    /\ curr_heading' = <<>>
    /\ page_entries' = <<>>
    /\ current_entries' = <<>>
    /\ entries_with_ids' = <<>>
    /\ UNCHANGED <<call, search_world, page_world, fetched>>

Next ==
    \/ Search
    \/ SkipDatabase
    \/ GetPageContentRaises
    \/ GetPageContentMalformed
    \/ GetPageContent
    \/ SkipBlock
    \/ ProcessBlock
    \/ ProcessBlockRaises
    \/ ReturnPage
    \/ UpdateEntriesWithIds
    \/ NextRun

Spec == Init /\ [][Next]_vars

\* ------------------------------------------------- process_page as a function

\* The loop of process_page over content["results"], from block i on with the
\* given curr_heading and current_entries: [ok, heading, entries], ok = FALSE
\* when get_block_children raised.
RECURSIVE process_page_loop(_, _, _, _, _)
process_page_loop(content, i, heading, entries, url) ==
    IF i > Len(content)
    THEN [ok |-> TRUE, heading |-> heading, entries |-> entries]
    ELSE IF BlockIsSkipped(content[i])
    THEN process_page_loop(content, i + 1, heading, entries, url)
    ELSE LET h == NextHeading(content[i], heading)
             got == BlockRaw(content[i], h)
         IN  IF ~got.ok
             THEN [ok |-> FALSE, heading |-> h, entries |-> entries]
             ELSE process_page_loop(content, i + 1, h,
                                    entries \o BlockEntries(got.raw, title, url), url)

\* process_page(page) for a page whose fetches answered content.
process_page(content, url) == process_page_loop(content, 1, <<>>, <<>>, url)

\* ------------------------------------------------ process_text, call by call

\* The runs and the enclosing block types one call of process_text is given.
CallRuns ==
    {Run(t, pl, h) : t \in {"text", "mention", "paragraph", "callout", "bookmark"},
                     pl \in {<<>>, <<"x">>}, h \in {<<>>, <<"u">>}}

CallBlockTypes == {"paragraph", "heading_1", "quote", "callout", "bookmark"}

InitText ==
    /\ run = "first"
    /\ pc = "search"
    /\ previous_entries = [given |-> FALSE, entries |-> <<>>]
    /\ search_world = <<>>
    /\ page_world = [i \in 1..MaxSize |-> UnknownPage]
    /\ fetched = [r \in {"first", "second"} |-> {}]
    /\ responses = 0
    /\ pos = <<1, 1>>
    /\ block_idx = 1
    /\ curr_heading = <<>>
    /\ page_entries = <<>>
    /\ current_entries = <<>>
    /\ entries_with_ids = <<>>
    /\ call \in [site : {"block", "child"}, text : CallRuns,
                  block_type : CallBlockTypes, done : {FALSE}, out : {<<>>}]

\* process_page, for a run of a top-level block of type call.block_type:
\* raw_content += self.process_text(text)
SerializeBlockRun ==
    /\ call.site = "block"
    /\ ~call.done
    /\ call' = [call EXCEPT !.done = TRUE, !.out = process_text(call.text, NoType)]
    /\ UNCHANGED <<run, pc, previous_entries, search_world, page_world, fetched,
                   responses, pos, block_idx, curr_heading, page_entries,
                   current_entries, entries_with_ids>>

\* process_nested_children, for a run of a child of a block of type
\* call.block_type: raw_content += self.process_text(text, block_type)
SerializeChildRun ==
    /\ call.site = "child"
    /\ ~call.done
    /\ call' = [call EXCEPT !.done = TRUE,
                            !.out = process_text(call.text, call.block_type)]
    /\ UNCHANGED <<run, pc, previous_entries, search_world, page_world, fetched,
                   responses, pos, block_idx, curr_heading, page_entries,
                   current_entries, entries_with_ids>>

NextText == SerializeBlockRun \/ SerializeChildRun

SpecText == InitText /\ [][NextText]_vars

\* ------------------------------------------------------------- the claims

IsPrefix(p, q) == Len(p) <= Len(q) /\ SubSeq(q, 1, Len(p)) = p

Last(q) == q[Len(q)]

\* A block with a type and a non-empty rich-text list.
HasText(block) ==
    block.type # NoType /\ block.has_rich_text /\ block.rich_text # <<>>

IsHeading(block) == block.type \in heading_block_types

\* The block the loop of process_page is at.
Here == Content[block_idx]

\* What the loop has made of the blocks before block i of the page at hand.
Before(i) == process_page(SubSeq(Content, 1, i - 1), Record.id)

\* The entries one run collects: those of the pages whose fetches answered, in
\* the order the search listed them.
RunEntries ==
    LET listed == Records(SubSeq(search_world, 1, responses))
        RECURSIVE from(_)
        from(k) ==
            IF k > Len(listed) THEN <<>>
            ELSE (IF listed[k].object = "page" /\ listed[k].id \in fetched[run]
                  THEN process_page(page_world[listed[k].id].content, listed[k].id).entries
                  ELSE <<>>) \o from(k + 1)
    IN  from(1)

\* C1: a heading block with non-empty rich text produces no Entry, so the
\* entries of a page are as many as its non-heading blocks that yield text.
C1_HeadingsYieldNoEntry ==
    pc = "blocks" =>
        Len(page_entries) =
            Cardinality({i \in 1..(block_idx - 1) :
                /\ HasText(Content[i])
                /\ ~IsHeading(Content[i])
                /\ BlockRaw(Content[i], Before(i).heading).raw # <<>>})

\* C6: a malformed page record or a failing fetch of a block's children skips
\* the page only: no such error ends process by an exception.
C6_PageErrorsAreNotFatal == pc # "raised"

\* C7: a top-level block of an unsupported type (callout, ...) never produces
\* an Entry, whatever its runs and the heading context.
C7_UnsupportedBlocksYieldNoEntry ==
    [][(AtBlock /\ Here.type \in unsupported_block_types)
          => page_entries' = page_entries]_vars

\* The serialization rule as stated: unsupported run types give the empty
\* string, then a link for a run with href, then newlines around the text of a
\* display type (the run's or the enclosing block's), else the text.
SerializationRule(t, enclosing) ==
    CASE t.type \in unsupported_block_types -> <<>>
      [] t.type \notin unsupported_block_types /\ t.href # <<>> ->
            <<"<", "a", " ", "h", "r", "e", "f", "=", "'">> \o t.href
                \o <<"'", ">">> \o t.plain_text \o <<"<", "/", "a", ">">>
      [] t.type \notin unsupported_block_types /\ t.href = <<>>
            /\ (t.type \in display_block_block_types
                \/ enclosing \in display_block_block_types) ->
            <<"\n">> \o t.plain_text \o <<"\n">>
      [] OTHER -> t.plain_text

\* C8: every run is serialized by the one rule, with the block's own type as
\* the enclosing type for a top-level block's run and the parent's type for a
\* child's run.
C8_OneSerializationRule ==
    call.done => call.out = SerializationRule(call.text, call.block_type)

\* The text of all children of a batch, in order, in the parent's context.
RECURSIVE AllChildrenText(_, _, _)
AllChildrenText(results, raw_content, block_type) ==
    IF results = <<>> THEN raw_content
    ELSE AllChildrenText(Tail(results),
                         process_runs(Head(results).rich_text, raw_content, block_type),
                         block_type)

\* C10: for a block with text that declares children, none of which has
\* children of its own, the block's one Entry holds the block's text, a
\* newline, and the text of every child of the batch in order.
C10_EveryChildOfTheBatch ==
    [][(/\ AtBlock
        /\ HasText(Here)
        /\ Here.has_children # "false"
        /\ Here.children.ok
        /\ \A k \in 1..Len(Here.children.results) :
              Here.children.results[k].children = NoChildren)
          => page_entries' =
                Append(page_entries,
                       Entry(AllChildrenText(Here.children.results,
                                             BlockText(Here, NextHeading(Here, curr_heading))
                                                 \o <<"\n">>,
                                             Here.type),
                             title, Record.id))]_vars

\* The last block before block i of the page at hand that is a heading with a
\* non-empty rich-text list, or 0.
LastHeadingBefore(i) ==
    SeqMax({0} \cup {j \in 1..(i - 1) : IsHeading(Content[j]) /\ HasText(Content[j])})

\* What opens the marker process_heading makes.
MarkerOpen == <<"\n", "<", "b", ">">>

\* The step of the loop that adds the Entry of a non-heading block with text.
EntryOfPlainBlock ==
    /\ AtBlock
    /\ HasText(Here)
    /\ ~IsHeading(Here)
    /\ page_entries' # page_entries

\* C2, as claimed: the Entry of a non-heading block starts with the marker of
\* the first run of the most recent heading before it on the page, followed by
\* the block's runs; with no heading before it on the page it has no marker.
C2_MarkerOfLastHeading ==
    [][EntryOfPlainBlock =>
         LET j == LastHeadingBefore(block_idx)
             runs == process_runs(Here.rich_text, <<>>, NoType)
             raw == Last(page_entries').raw
         IN  IF j # 0
             THEN IsPrefix(process_heading(Content[j].rich_text[1].plain_text) \o runs, raw)
             ELSE IsPrefix(runs, raw) /\ ~IsPrefix(MarkerOpen, raw)]_vars

\* C2, amended: the marker is there when that first run's plain_text is not
\* empty; with an empty one, as with no heading before it, there is no marker.
C2_MarkerOfLastNamedHeading ==
    [][EntryOfPlainBlock =>
         LET j == LastHeadingBefore(block_idx)
             runs == process_runs(Here.rich_text, <<>>, NoType)
             raw == Last(page_entries').raw
         IN  IF j # 0 /\ Content[j].rich_text[1].plain_text # <<>>
             THEN IsPrefix(process_heading(Content[j].rich_text[1].plain_text) \o runs, raw)
             ELSE IsPrefix(runs, raw) /\ ~IsPrefix(MarkerOpen, raw)]_vars

\* A paragraph after two headings of different text has the second's marker.
C2_Witness ==
    /\ pc = "blocks"
    /\ block_idx = 4
    /\ IsHeading(Content[1]) /\ HasText(Content[1])
    /\ IsHeading(Content[2]) /\ HasText(Content[2])
    /\ Content[1].rich_text[1].plain_text # Content[2].rich_text[1].plain_text
    /\ Content[2].rich_text[1].plain_text # <<>>
    /\ ~IsHeading(Content[3]) /\ HasText(Content[3])
    /\ Len(page_entries) = 3
    /\ IsPrefix(process_heading(Content[2].rich_text[1].plain_text),
                Last(page_entries).raw)

\* Whether two entries of a list have one compiled text.
HasDuplicates(entries) ==
    \E i, j \in 1..Len(entries) : i # j /\ entries[i].compiled = entries[j].compiled

\* The second run read the pages the first read (and their content is kept).
SecondRunOfSameContent ==
    /\ pc = "done"
    /\ run = "second"
    /\ fetched["second"] = fetched["first"]

\* C3, as claimed: a second run over the same content, given the first run's
\* output, assigns every Entry the id the first run assigned.
C3_SameIdsOnSameContent ==
    SecondRunOfSameContent => entries_with_ids = previous_entries.entries

\* C3, amended: so it is when no two entries have the same compiled text.
C3_SameIdsOnDistinctContent ==
    (SecondRunOfSameContent /\ ~HasDuplicates(current_entries))
        => entries_with_ids = previous_entries.entries

\* A second run that matched two entries of different text.
C3_Witness ==
    /\ SecondRunOfSameContent
    /\ ~HasDuplicates(current_entries)
    /\ Len(current_entries) >= 2
    /\ Len(previous_entries.entries) >= 2
    /\ entries_with_ids = previous_entries.entries

\* C4: with previous_entries None or empty, process returns the entries of the
\* run numbered from 0, in the order the pages arrived and in block order.
C4_FirstRunAssignment ==
    (pc = "done" /\ (~previous_entries.given \/ previous_entries.entries = <<>>))
        => entries_with_ids =
              [i \in 1..Len(RunEntries) |-> [id |-> i - 1, entry |-> RunEntries[i]]]

\* A first run over two responses, each listing a page with an entry.
C4_Witness ==
    /\ pc = "done"
    /\ run = "first"
    /\ responses = 2
    /\ Len(entries_with_ids) = 2
    /\ entries_with_ids[1].id = 0 /\ entries_with_ids[1].entry.file = 1
    /\ entries_with_ids[2].id = 1 /\ entries_with_ids[2].entry.file = 2
    /\ entries_with_ids[1].entry.raw # entries_with_ids[2].entry.raw

\* The pages of the run whose fetch raised.
FailedPages ==
    {r.id : r \in {q \in {Records(SubSeq(search_world, 1, responses))[k] :
                            k \in 1..Len(Records(SubSeq(search_world, 1, responses)))} :
                      q.object = "page" /\ q.id \notin fetched[run]}}

\* C5: a page whose fetch raises contributes no Entry and does not end the
\* run: the entries of the other pages are there, in order, and are what the
\* ids are assigned to.
C5_FailedFetchSkipsThePage ==
    /\ pc = "done" =>
          /\ current_entries = RunEntries
          /\ \A i \in 1..Len(current_entries) : current_entries[i].file \notin FailedPages
          /\ Len(entries_with_ids) = Len(current_entries)
          /\ \A i \in 1..Len(current_entries) :
                entries_with_ids[i].entry = current_entries[i]
    /\ pc = "raised" =>
          /\ page_world[Record.id].known
          /\ \/ page_world[Record.id].malformed
             \/ ~process_page(Content, Record.id).ok

\* A finished run in which the first page's fetch raised and the second
\* page's entries got their ids.
C5_Witness ==
    /\ pc = "done"
    /\ 1 \in FailedPages
    /\ 2 \in fetched[run]
    /\ current_entries # <<>>
    /\ entries_with_ids # <<>>

EmptyRichText(block) == ~block.has_rich_text \/ block.rich_text = <<>>

WithoutEmpty(content) == SelectSeq(content, LAMBDA b : ~EmptyRichText(b))

\* C9: a block whose rich-text list is missing or empty, heading or not, adds
\* no Entry and leaves curr_heading alone: the loop stands where it would
\* with those blocks absent from the page.
C9_EmptyBlocksLeaveNoTrace ==
    pc = "blocks" =>
        LET r == process_page(WithoutEmpty(SubSeq(Content, 1, block_idx - 1)), Record.id)
        IN  r.ok /\ page_entries = r.entries /\ curr_heading = r.heading

\* A heading without text between a heading and a paragraph: the paragraph
\* has the first heading's marker.
C9_Witness ==
    /\ pc = "blocks"
    /\ block_idx = 4
    /\ IsHeading(Content[1]) /\ HasText(Content[1])
    /\ IsHeading(Content[2]) /\ EmptyRichText(Content[2])
    /\ ~IsHeading(Content[3]) /\ HasText(Content[3])
    /\ curr_heading = Content[1].rich_text[1].plain_text
    /\ curr_heading # <<>>
    /\ IsPrefix(process_heading(curr_heading), Last(page_entries).raw)
====
